---- MODULE Spec2Model ----
(***************************************************************************)
(* Model of the borders crate (src/src/lib.rs, src/src/styles.rs): the     *)
(* table formatter of SimpleBorderStyle.                                   *)
(*                                                                         *)
(* A text (Rust String / &str) is a sequence of characters; a character    *)
(* (Rust char, one Unicode scalar value) is a one-element code written as  *)
(* a TLA+ string: printable ASCII characters stand for themselves, "\n" is *)
(* the line feed, and a non-ASCII scalar is written by its code point      *)
(* ("U+00E9" is e-acute, "U+2502" is the thin vertical bar).               *)
(***************************************************************************)
EXTENDS Integers, Sequences, FiniteSets, TLC

VARIABLES input, op, style, key_header, value_header, b, panicked, wrapped

vars == <<input, op, style, key_header, value_header, b, panicked, wrapped>>

(***************************************************************************)
(* Bounds of the model.                                                    *)
(***************************************************************************)
MaxLen == 2

MaxElems == 2

MaxEntries == 2

(***************************************************************************)
(* Characters and texts.                                                   *)
(***************************************************************************)
LF == "\n"

CR == "\r"

SPACE == " "

EAcute == "U+00E9"

\* the box-drawing characters of styles.rs, all in U+2500..U+257F
BoxChars ==
  {"U+2502", "U+2500", "U+2534", "U+252C", "U+251C", "U+2524", "U+250C",
   "U+2510", "U+2514", "U+2518", "U+253C", "U+2551", "U+2550", "U+2569",
   "U+2566", "U+2560", "U+2563", "U+2554", "U+2557", "U+255A", "U+255D",
   "U+256C"}

\* char::len_utf8: the number of bytes of the UTF-8 encoding of a character
len_utf8(c) ==
  IF c \in BoxChars THEN 3
  ELSE IF c = EAcute THEN 2
  ELSE 1

Max(x, y) == IF x >= y THEN x ELSE y

RECURSIVE SeqMax(_, _)
\* Iterator::max().unwrap_or(dflt) over a sequence of numbers
SeqMax(s, dflt) ==
  IF s = << >> THEN dflt
  ELSE LET m == SeqMax(Tail(s), Head(s)) IN Max(Head(s), m)

RECURSIVE Concat(_)
\* concatenation of a sequence of texts
Concat(ss) == IF ss = << >> THEN << >> ELSE Head(ss) \o Concat(Tail(ss))

\* str::chars().count(): the number of Unicode scalar values of a text
chars_count(s) == Len(s)

RECURSIVE str_len(_)
\* str::len(): the number of bytes of a text
str_len(s) == IF s = << >> THEN 0 ELSE len_utf8(Head(s)) + str_len(Tail(s))

\* str::repeat of a one-character text
repeat(c, n) == [i \in 1..n |-> c]

RECURSIVE join(_, _)
\* [String]::join(sep)
join(ss, sep) ==
  IF ss = << >> THEN << >>
  ELSE IF Len(ss) = 1 THEN Head(ss)
  ELSE Head(ss) \o sep \o join(Tail(ss), sep)

\* variant: the padding computed from the number of bytes of the text
pad_right_aligned_bytes(s, w) ==
  IF str_len(s) >= w THEN s ELSE [i \in 1..(w - str_len(s)) |-> " "] \o s

\* format!("{:>w$}", s): right-aligned, padded with spaces to w characters
pad_right_aligned(s, w) ==
  IF chars_count(s) >= w THEN s ELSE repeat(SPACE, w - chars_count(s)) \o s

\* the segments of the text s between the occurrences of the character c,
\* in order: one more segment than there are occurrences
split(s, c) ==
  LET at == {i \in 1..Len(s) : s[i] = c}
      n == Cardinality(at)
      pos(k) == IF k = 0 THEN 0
                ELSE IF k = n + 1 THEN Len(s) + 1
                ELSE CHOOSE p \in at : Cardinality({q \in at : q <= p}) = k
  IN [k \in 1..(n + 1) |-> SubSeq(s, pos(k - 1) + 1, pos(k) - 1)]

\* one line of str::lines(): a carriage return before the line feed is dropped
strip_cr(l) ==
  IF l # << >> /\ l[Len(l)] = CR THEN SubSeq(l, 1, Len(l) - 1) ELSE l

\* str::lines(): split at "\n" or "\r\n"; the text after the last line feed
\* is a line only when it is not empty
lines(s) ==
  LET segs == split(s, LF)
      n == Len(segs)
      last == segs[n]
      body == [i \in 1..(n - 1) |-> strip_cr(segs[i])]
  IN IF last = << >> THEN body ELSE Append(body, last)

\* Iterator::nth(i).unwrap_or(""), i counted from 0
nth_or_empty(ls, i) == IF i + 1 <= Len(ls) THEN ls[i + 1] ELSE << >>

(***************************************************************************)
(* styles.rs                                                               *)
(***************************************************************************)
THIN ==
  [vertical |-> "U+2502", horizontal |-> "U+2500",
   horizontal_up |-> "U+2534", horizontal_down |-> "U+252C",
   vertical_right |-> "U+251C", vertical_left |-> "U+2524",
   top_left |-> "U+250C", top_right |-> "U+2510",
   bottom_left |-> "U+2514", bottom_right |-> "U+2518",
   cross |-> "U+253C"]

DOUBLE ==
  [vertical |-> "U+2551", horizontal |-> "U+2550",
   horizontal_up |-> "U+2569", horizontal_down |-> "U+2566",
   vertical_right |-> "U+2560", vertical_left |-> "U+2563",
   top_left |-> "U+2554", top_right |-> "U+2557",
   bottom_left |-> "U+255A", bottom_right |-> "U+255D",
   cross |-> "U+256C"]

ASCII ==
  [vertical |-> "|", horizontal |-> "-",
   horizontal_up |-> "+", horizontal_down |-> "+",
   vertical_right |-> "+", vertical_left |-> "+",
   top_left |-> "+", top_right |-> "+",
   bottom_left |-> "+", bottom_right |-> "+",
   cross |-> "+"]

\* the fields of SimpleBorderStyle are private: these are all the styles
Styles == {THIN, DOUBLE, ASCII}

(***************************************************************************)
(* lib.rs: impl SimpleBorderStyle                                          *)
(***************************************************************************)
get_top_line(self, len, width) ==
  <<self.top_left>>
    \o join([i \in 1..len |-> repeat(self.horizontal, width)],
            <<self.horizontal_down>>)
    \o <<self.top_right>>

get_bottom_line(self, len, width) ==
  <<self.bottom_left>>
    \o join([i \in 1..len |-> repeat(self.horizontal, width)],
            <<self.horizontal_up>>)
    \o <<self.bottom_right>>

\* the height of the row: lines 240-244
slice_lines(entry_lines) ==
  SeqMax([i \in 1..Len(entry_lines) |-> Len(entry_lines[i])], 1)

\* variant: the width of each column measured in bytes
slice_len_bytes(entry_lines) ==
  SeqMax([i \in 1..Len(entry_lines) |->
            SeqMax([j \in 1..Len(entry_lines[i]) |->
                      str_len(entry_lines[i][j])], 0)], 1)

\* the width of each column: lines 247-251
slice_len(entry_lines) ==
  SeqMax([i \in 1..Len(entry_lines) |->
            SeqMax([j \in 1..Len(entry_lines[i]) |->
                      chars_count(entry_lines[i][j])], 0)], 1)

\* format_slice, the elements already formatted with Display (line 235)
format_slice(self, entries) ==
  LET entry_lines == [i \in 1..Len(entries) |-> lines(entries[i])]
      nlines == slice_lines(entry_lines)
      len == slice_len(entry_lines)
      top_line == get_top_line(self, Len(entries), len)
      bottom_line == get_bottom_line(self, Len(entries), len)
      middle ==
        Concat([i \in 1..nlines |->
          <<self.vertical>>
            \o join([e \in 1..Len(entry_lines) |->
                       pad_right_aligned(nth_or_empty(entry_lines[e], i - 1),
                                         len)],
                    <<self.vertical>>)
            \o <<self.vertical, LF>>])
  IN top_line \o <<LF>> \o middle \o bottom_line


\* line 361, i < entries.len() - 1 in usize arithmetic: when n = 0 the
\* subtraction underflows, a build with overflow checks panics and a build
\* without them wraps around to usize::MAX, which is above every index
before_last(i, n, checks) ==
  IF n >= 1 THEN [panic |-> FALSE, lt |-> i < n - 1]
  ELSE IF checks THEN [panic |-> TRUE, lt |-> FALSE]
  ELSE [panic |-> FALSE, lt |-> TRUE]

\* HashMap::keys(): the keys in the iteration order of the map, the map
\* given as the sequence of its (key, value) entries in that order
hash_map_keys(m) == [i \in 1..Len(m) |-> m[i][1]]

\* variant: the values in the reverse of the iteration order of the keys
hash_map_values_reversed(m) == [i \in 1..Len(m) |-> m[Len(m) + 1 - i][2]]

\* HashMap::values(): the values, in the same iteration order
hash_map_values(m) == [i \in 1..Len(m) |-> m[i][2]]

\* the width of a column of the key/value table: lines 291-296 and 304-309
hash_map_width(cell_lines, header) ==
  Max(SeqMax([i \in 1..Len(cell_lines) |->
                SeqMax([j \in 1..Len(cell_lines[i]) |->
                          str_len(cell_lines[i][j])], 1)], 1),
      str_len(header))

\* variant: the header row only when both headers are given
has_header_both(kh, vh) == kh # << >> /\ vh # << >>

\* line 338: the header row is wanted
has_header(kh, vh) == kh # << >> \/ vh # << >>

\* lines 331-342: the zipped entries, the header entry first when wanted
hash_map_entries(keys, vals, kh, vh) ==
  LET n == IF Len(keys) <= Len(vals) THEN Len(keys) ELSE Len(vals)
      entries == [i \in 1..n |-> <<keys[i], vals[i]>>]
  IN IF has_header(kh, vh) THEN <<<<lines(kh), lines(vh)>>>> \o entries
     ELSE entries

\* lines 347-358: the physical lines of one entry
hash_map_row(self, entry, key_width, val_width) ==
  LET height == Max(Len(entry[1]), Len(entry[2]))
  IN Concat([j \in 1..height |->
       <<self.vertical>>
         \o pad_right_aligned(nth_or_empty(entry[1], j - 1), key_width)
         \o <<self.vertical>>
         \o pad_right_aligned(nth_or_empty(entry[2], j - 1), val_width)
         \o <<self.vertical, LF>>])

\* lines 363-370: the line between two entries
hash_map_divider(self, key_width, val_width) ==
  <<self.vertical_right>> \o repeat(self.horizontal, key_width)
    \o <<self.cross>> \o repeat(self.horizontal, val_width)
    \o <<self.vertical_left, LF>>

RECURSIVE hash_map_middle_hoisted(_, _, _, _, _, _)
\* variant: entries.len() - 1 computed before the loop tests its index
hash_map_middle_hoisted(self, entries, i, key_width, val_width, checks) ==
  LET last == before_last(i, Len(entries), checks)
  IN IF last.panic THEN [panic |-> TRUE, text |-> << >>]
     ELSE IF i >= Len(entries) THEN [panic |-> FALSE, text |-> << >>]
     ELSE
       LET rest == hash_map_middle_hoisted(self, entries, i + 1, key_width,
                                           val_width, checks)
       IN [panic |-> rest.panic,
           text |-> hash_map_row(self, entries[i + 1], key_width, val_width)
                    \o (IF last.lt
                        THEN hash_map_divider(self, key_width, val_width)
                        ELSE << >>)
                    \o rest.text]

RECURSIVE hash_map_middle(_, _, _, _, _, _)
\* lines 344-372: the loop over the entries, from index i (counted from 0)
hash_map_middle(self, entries, i, key_width, val_width, checks) ==
  IF i >= Len(entries) THEN [panic |-> FALSE, text |-> << >>]
  ELSE
    LET row == hash_map_row(self, entries[i + 1], key_width, val_width)
        last == before_last(i, Len(entries), checks)
        rest == hash_map_middle(self, entries, i + 1, key_width, val_width,
                                checks)
    IN IF last.panic \/ rest.panic THEN [panic |-> TRUE, text |-> << >>]
       ELSE [panic |-> FALSE,
             text |-> row
                      \o (IF last.lt
                          THEN hash_map_divider(self, key_width, val_width)
                          ELSE << >>)
                      \o rest.text]

\* format_hash_map_headers of the impl (lines 275-375), the keys and values
\* already formatted with Display
format_hash_map_headers(self, m, kh, vh, checks) ==
  LET vals == [i \in 1..Len(m) |-> lines(hash_map_values(m)[i])]
      val_width == hash_map_width(vals, vh)
      keys == [i \in 1..Len(m) |-> lines(hash_map_keys(m)[i])]
      key_width == hash_map_width(keys, kh)
      top_line ==
        <<self.top_left>> \o repeat(self.horizontal, key_width)
          \o <<self.horizontal_down>> \o repeat(self.horizontal, val_width)
          \o <<self.top_right>>
      bottom_line ==
        <<self.bottom_left>> \o repeat(self.horizontal, key_width)
          \o <<self.horizontal_up>> \o repeat(self.horizontal, val_width)
          \o <<self.bottom_right>>
      entries == hash_map_entries(keys, vals, kh, vh)
      middle == hash_map_middle(self, entries, 0, key_width, val_width,
                                checks)
  IN IF middle.panic THEN [panic |-> TRUE, text |-> << >>]
     ELSE [panic |-> FALSE,
           text |-> top_line \o <<LF>> \o middle.text \o bottom_line]

KeyText == <<"K", "e", "y">>

ValueText == <<"V", "a", "l", "u", "e">>

\* variant: the two headers passed in the other order
format_hash_map_swapped(self, m, checks) ==
  format_hash_map_headers(self, m, ValueText, KeyText, checks)

\* the default format_hash_map of the trait (lines 127-129)
format_hash_map(self, m, checks) ==
  format_hash_map_headers(self, m, KeyText, ValueText, checks)

\* the default format_iter of the trait: the items collected into a Vec
format_iter(self, iter) == format_slice(self, iter)

\* the default format_display of the trait (lines 182-184)
format_display(self, val) == format_slice(self, <<val>>)

\* one character of the Debug form of a str (char::escape_debug)
escape_debug(c) ==
  IF c = LF THEN <<"\\", "n">>
  ELSE IF c = CR THEN <<"\\", "r">>
  ELSE IF c = "\"" THEN <<"\\", "\"">>
  ELSE IF c = "\\" THEN <<"\\", "\\">>
  ELSE <<c>>

\* format!("{:?}", val) of a str: quoted, the characters escaped
debug_str(val) ==
  <<"\"">> \o Concat([i \in 1..Len(val) |-> escape_debug(val[i])]) \o <<"\"">>

\* the default format_debug of the trait (lines 199-201)
format_debug(self, val) == format_slice(self, <<debug_str(val)>>)

Digit(d) == CASE d = 0 -> "0" [] d = 1 -> "1" [] d = 2 -> "2" [] d = 3 -> "3"
              [] d = 4 -> "4" [] d = 5 -> "5" [] d = 6 -> "6" [] d = 7 -> "7"
              [] d = 8 -> "8" [] d = 9 -> "9"

RECURSIVE display_int(_)
\* format!("{}", n) of an integer n >= 0: its decimal digits
display_int(n) ==
  IF n < 10 THEN <<Digit(n)>> ELSE Append(display_int(n \div 10), Digit(n % 10))

(***************************************************************************)
(* Inputs.                                                                 *)
(***************************************************************************)
\* the characters of the texts: a two-byte character and the line feed
Chars == {EAcute, LF}

RECURSIVE TextsOfLen(_)
TextsOfLen(n) ==
  IF n = 0 THEN {<< >>}
  ELSE {Append(t, c) : t \in TextsOfLen(n - 1), c \in Chars}

\* the display texts of the elements of a slice, and the wrapped values
Texts == UNION {TextsOfLen(n) : n \in 0..MaxLen}

RECURSIVE SeqsOfLen(_, _)
SeqsOfLen(S, n) ==
  IF n = 0 THEN {<< >>}
  ELSE {Append(s, x) : s \in SeqsOfLen(S, n - 1), x \in S}

Slices == UNION {SeqsOfLen(Texts, n) : n \in 0..MaxElems}

\* the display texts of the keys of a map: empty, one two-byte character,
\* one empty line, two lines of different lengths
KeyTexts == {<< >>, <<EAcute>>, <<LF>>, <<"a", LF, "a", EAcute>>}

\* the display texts of the values of a map: empty, one two-byte character,
\* three lines the second of them empty
ValTexts == {<< >>, <<EAcute>>, <<"a", "a", LF, LF, "a">>}

\* the header texts: none, one character, two lines with a two-byte character
HeaderTexts == {<< >>, <<"h">>, <<"h", EAcute, LF, "h">>}

Entries == {<<k, v>> : k \in KeyTexts, v \in ValTexts}

\* the maps of at most MaxEntries entries, in every iteration order
Maps ==
  UNION {{m \in SeqsOfLen(Entries, n) :
            \A i, j \in 1..n : i # j => m[i][1] # m[j][1]} :
         n \in 0..MaxEntries}

Jon == <<<<"J", "o", "n">>, display_int(38)>>

Jake == <<<<"J", "a", "k", "e">>, display_int(25)>>

Josh == <<<<"J", "o", "s", "h">>, display_int(17)>>

\* the map of the documentation of format_hash_map, in every iteration order
DocMaps ==
  {m \in SeqsOfLen({Jon, Jake, Josh}, 3) :
     \A i, j \in 1..3 : i # j => m[i] # m[j]}

SliceInput(s) ==
  [kind |-> "slice", items |-> s, entries |-> << >>, val |-> << >>]

MapInput(m) ==
  [kind |-> "map", items |-> << >>, entries |-> m, val |-> << >>]

ValueInput(v) ==
  [kind |-> "value", items |-> << >>, entries |-> << >>, val |-> v]

(***************************************************************************)
(* The state machine: a caller that holds a collection or a value, formats *)
(* it with one of the styles into b, and may wrap b in a second border.    *)
(***************************************************************************)
Init ==
  /\ input \in {SliceInput(s) : s \in Slices}
                 \cup {MapInput(m) : m \in Maps \cup DocMaps}
                 \cup {ValueInput(v) : v \in Texts}
  /\ op = "none"
  /\ style = THIN
  /\ key_header = << >>
  /\ value_header = << >>
  /\ b = << >>
  /\ panicked = FALSE
  /\ wrapped = FALSE

FormatSlice ==
  /\ op = "none"
  /\ input.kind = "slice"
  /\ \E self \in Styles :
       /\ style' = self
       /\ b' = format_slice(self, input.items)
  /\ op' = "format_slice"
  /\ UNCHANGED <<input, key_header, value_header, panicked, wrapped>>

FormatIter ==
  /\ op = "none"
  /\ input.kind = "slice"
  /\ \E self \in Styles :
       /\ style' = self
       /\ b' = format_iter(self, input.items)
  /\ op' = "format_iter"
  /\ UNCHANGED <<input, key_header, value_header, panicked, wrapped>>

FormatHashMapHeaders ==
  /\ op = "none"
  /\ input.kind = "map"
  /\ \E self \in Styles, kh \in HeaderTexts, vh \in HeaderTexts,
        checks \in BOOLEAN :
       LET r == format_hash_map_headers(self, input.entries, kh, vh,
                                        checks)
       IN /\ style' = self
          /\ key_header' = kh
          /\ value_header' = vh
          /\ b' = r.text
          /\ panicked' = r.panic
  /\ op' = "format_hash_map_headers"
  /\ UNCHANGED <<input, wrapped>>

FormatHashMap ==
  /\ op = "none"
  /\ input.kind = "map"
  /\ \E self \in Styles, checks \in BOOLEAN :
       LET r == format_hash_map(self, input.entries, checks)
       IN /\ style' = self
          /\ b' = r.text
          /\ panicked' = r.panic
  /\ op' = "format_hash_map"
  /\ UNCHANGED <<input, key_header, value_header, wrapped>>

FormatDisplay ==
  /\ op = "none"
  /\ input.kind = "value"
  /\ \E self \in Styles :
       /\ style' = self
       /\ b' = format_display(self, input.val)
  /\ op' = "format_display"
  /\ UNCHANGED <<input, key_header, value_header, panicked, wrapped>>

FormatDebug ==
  /\ op = "none"
  /\ input.kind = "value"
  /\ \E self \in Styles :
       /\ style' = self
       /\ b' = format_debug(self, input.val)
  /\ op' = "format_debug"
  /\ UNCHANGED <<input, key_header, value_header, panicked, wrapped>>

\* let b = S2.format_display(b): the formatted text wrapped in a second border
WrapDisplay ==
  /\ op # "none"
  /\ ~panicked
  /\ ~wrapped
  /\ \E self \in Styles :
       /\ style' = self
       /\ b' = format_display(self, b)
  /\ input' = ValueInput(b)
  /\ op' = "format_display"
  /\ wrapped' = TRUE
  /\ UNCHANGED <<key_header, value_header, panicked>>

Next ==
  \/ FormatSlice
  \/ FormatIter
  \/ FormatHashMapHeaders
  \/ FormatHashMap
  \/ FormatDisplay
  \/ FormatDebug
  \/ WrapDisplay

Spec == Init /\ [][Next]_vars

(***************************************************************************)
(* Reading a rendered table back.                                          *)
(***************************************************************************)
\* the lines of a rendered text
TextLines(t) == split(t, LF)

OutLines == TextLines(b)

TopLine == OutLines[1]

BottomLine == OutLines[Len(OutLines)]

\* the lines between the top and the bottom border
Middle(ls) == SubSeq(ls, 2, Len(ls) - 1)

\* a line without its first and last character
Inner(l) == SubSeq(l, 2, Len(l) - 1)

\* the cells of a content line
Cells(l) == split(Inner(l), style.vertical)

RECURSIVE StripSpaces(_)
\* a cell without its padding
StripSpaces(s) ==
  IF s # << >> /\ Head(s) = SPACE THEN StripSpaces(Tail(s)) ELSE s

RECURSIVE TrimEmpty(_)
\* a sequence of lines without its trailing empty lines
TrimEmpty(ls) ==
  IF ls # << >> /\ ls[Len(ls)] = << >>
  THEN TrimEmpty(SubSeq(ls, 1, Len(ls) - 1)) ELSE ls

\* a divider line of the key/value table
IsDivider(l) == l # << >> /\ l[1] = style.vertical_right

\* the number of divider lines of a rendered text
DividerCount(t) ==
  LET ls == Middle(TextLines(t))
  IN Cardinality({i \in DOMAIN ls : IsDivider(ls[i])})

\* the number of content lines of a rendered text
ContentCount(t) == Len(Middle(TextLines(t))) - DividerCount(t)

RECURSIVE Blocks(_, _)
\* the groups of content lines that the divider lines separate
Blocks(ls, cur) ==
  IF ls = << >> THEN <<cur>>
  ELSE IF IsDivider(Head(ls)) THEN <<cur>> \o Blocks(Tail(ls), << >>)
  ELSE Blocks(Tail(ls), Append(cur, Head(ls)))

Rows == Blocks(Middle(OutLines), << >>)

\* the texts shown in column c of a group of content lines
Column(block, c) ==
  TrimEmpty([j \in 1..Len(block) |-> StripSpaces(Cells(block[j])[c])])

\* the widths of the columns of a border line whose columns joiner separates
BorderWidths(l, joiner) ==
  LET segs == split(Inner(l), joiner)
  IN [i \in 1..Len(segs) |-> Len(segs[i])]

OnlyHorizontal(l, joiner) ==
  \A i \in DOMAIN Inner(l) : Inner(l)[i] \in {style.horizontal, joiner}

\* the largest number of characters of a line-feed-delimited segment of the
\* texts ts, and of the whole text header
MaxLineChars(ts, header) ==
  Max(SeqMax([i \in 1..Len(ts) |->
                SeqMax([j \in 1..Len(TextLines(ts[i])) |->
                          Len(TextLines(ts[i])[j])], 0)], 0),
      Len(header))

IsMapOp == op \in {"format_hash_map_headers", "format_hash_map"}

HasHeader ==
  op = "format_hash_map" \/ key_header # << >> \/ value_header # << >>

(***************************************************************************)
(* The claims.                                                             *)
(***************************************************************************)

\* C1: format_slice renders every column, in the top border, the bottom
\* border and every cell, with the width max(1, the largest number of
\* characters of a physical line of an element).
C1_SliceColumnWidth ==
  (op = "format_slice" /\ input.items # << >>) =>
    LET n == Len(input.items)
        w == Max(1, MaxLineChars(input.items, << >>))
    IN /\ OnlyHorizontal(TopLine, style.horizontal_down)
       /\ BorderWidths(TopLine, style.horizontal_down) = [i \in 1..n |-> w]
       /\ OnlyHorizontal(BottomLine, style.horizontal_up)
       /\ BorderWidths(BottomLine, style.horizontal_up) = [i \in 1..n |-> w]
       /\ \A j \in DOMAIN Middle(OutLines) :
            LET cs == Cells(Middle(OutLines)[j])
            IN Len(cs) = n /\ \A c \in 1..n : Len(cs[c]) = w

\* C2: format_hash_map_headers renders the key column with the width
\* max(1, characters of the key header, the largest number of characters of
\* a physical line of a key), and the value column likewise.
C2_HashMapColumnWidths ==
  (op = "format_hash_map_headers" /\ ~panicked) =>
    LET kw == Max(1, MaxLineChars(hash_map_keys(input.entries), key_header))
        vw == Max(1, MaxLineChars(hash_map_values(input.entries),
                                  value_header))
    IN /\ BorderWidths(TopLine, style.horizontal_down) = <<kw, vw>>
       /\ BorderWidths(BottomLine, style.horizontal_up) = <<kw, vw>>

\* C3: every line of every rendered text (borders, content lines, divider
\* lines) has the same number of characters.
C3_AllLinesSameLength ==
  (op # "none" /\ ~panicked) =>
    LET ls == OutLines
    IN \A i \in DOMAIN ls : Len(ls[i]) = Len(ls[1])

C3_Witness ==
  /\ op = "format_hash_map_headers"
  /\ ~panicked
  /\ Len(lines(key_header)) = 2
  /\ \E i \in DOMAIN input.entries : Len(lines(input.entries[i][2])) = 3
  /\ \E i \in DOMAIN input.entries : input.entries[i][1] = <<EAcute>>
  /\ DividerCount(b) = 2

\* C4 as stated: with both headers empty the output has no header row and
\* exactly one divider line fewer than with a header, for every mapping.
C4_OneFewerDivider ==
  (op = "format_hash_map_headers" /\ ~panicked /\ HasHeader) =>
    LET plain == format_hash_map_headers(style, input.entries, << >>, << >>,
                                         FALSE).text
        height == Max(Len(lines(key_header)), Len(lines(value_header)))
    IN /\ ContentCount(plain) = ContentCount(b) - height
       /\ DividerCount(plain) = DividerCount(b) - 1

\* C4 as amended: with both headers empty the output has no header row; it
\* has exactly one divider line fewer than with a header when the mapping
\* is not empty, and neither output has a divider line when it is empty.
C4_HeaderSuppression ==
  (op = "format_hash_map_headers" /\ ~panicked /\ HasHeader) =>
    LET plain == format_hash_map_headers(style, input.entries, << >>, << >>,
                                         FALSE).text
        height == Max(Len(lines(key_header)), Len(lines(value_header)))
    IN /\ ContentCount(plain) = ContentCount(b) - height
       /\ input.entries # << >> => DividerCount(plain) = DividerCount(b) - 1
       /\ input.entries = << >> =>
            DividerCount(plain) = 0 /\ DividerCount(b) = 0

C4_Witness ==
  /\ op = "format_hash_map_headers"
  /\ ~panicked
  /\ key_header = << >>
  /\ value_header # << >>
  /\ Len(input.entries) = 2
  /\ DividerCount(b) = 2

\* C5: format_hash_map of the map {Jon: 38, Jake: 25, Josh: 17} renders 4
\* entries and 3 divider lines, the key column 5 wide, the value column 5.
C5_DocExample ==
  (op = "format_hash_map" /\ ~panicked /\ input.entries \in DocMaps) =>
    /\ Len(Rows) = 4
    /\ DividerCount(b) = 3
    /\ BorderWidths(TopLine, style.horizontal_down) = <<5, 5>>

\* C6: format_hash_map returns the text of format_hash_map_headers with the
\* headers "Key" and "Value"; its header row shows "Key" in the left column,
\* which holds the keys, and "Value" in the right one, which holds the values.
C6_DefaultHeaders ==
  (op = "format_hash_map" /\ ~panicked) =>
    /\ b = format_hash_map_headers(style, input.entries, KeyText, ValueText,
                                   FALSE).text
    /\ Column(Rows[1], 1) = <<KeyText>>
    /\ Column(Rows[1], 2) = <<ValueText>>
    /\ input.entries # << >> =>
         /\ Column(Rows[2], 1) = TrimEmpty(lines(input.entries[1][1]))
         /\ Column(Rows[2], 2) = TrimEmpty(lines(input.entries[1][2]))

C6_Witness ==
  /\ op = "format_hash_map"
  /\ ~panicked
  /\ input.entries \in DocMaps
  /\ Column(Rows[1], 1) = <<KeyText>>

\* C7: format_hash_map_headers of the empty mapping with both headers empty
\* does not panic and returns the top border and the bottom border, both
\* columns 1 wide, and nothing between them.
C7_EmptyMapNoHeaders ==
  (/\ op = "format_hash_map_headers"
   /\ input.entries = << >>
   /\ key_header = << >>
   /\ value_header = << >>) =>
    /\ ~panicked
    /\ b = <<style.top_left, style.horizontal, style.horizontal_down,
             style.horizontal, style.top_right, LF,
             style.bottom_left, style.horizontal, style.horizontal_up,
             style.horizontal, style.bottom_right>>

C7_Witness ==
  /\ op = "format_hash_map_headers"
  /\ input.kind = "map"
  /\ input.entries = << >>
  /\ key_header = << >>
  /\ value_header = << >>
  /\ style = DOUBLE
  /\ Len(b) = 11

\* C8: format_slice renders as many content lines as the largest number of
\* physical lines of an element, at least 1, and 1 for the empty sequence.
C8_SliceRowHeight ==
  op = "format_slice" =>
    Len(Middle(OutLines)) =
      Max(1, SeqMax([i \in 1..Len(input.items) |->
                       Len(lines(input.items[i]))], 1))

\* C9: a rendered text wrapped by format_display of a second style appears
\* line by line between two vertical glyphs of that style, unchanged.
C9_WrapKeepsText ==
  wrapped =>
    LET inner == TextLines(input.val)
        ls == OutLines
    IN /\ Len(ls) = Len(inner) + 2
       /\ \A i \in DOMAIN inner :
            ls[i + 1] = <<style.vertical>> \o inner[i] \o <<style.vertical>>

C9_Witness ==
  /\ wrapped
  /\ style = ASCII
  /\ Len(OutLines) >= 7
  /\ input.val[1] = THIN.top_left
  /\ \E i \in DOMAIN input.val : input.val[i] = THIN.cross
  /\ \E i \in DOMAIN input.val : input.val[i] = EAcute

\* C10: every entry of the mapping is rendered in exactly one row, in the
\* iteration order, and the row shows the key of the entry in the left
\* column and the value of the same entry in the right column.  A row is
\* the group of content lines between two divider lines (or a border); the
\* row of an entry whose key and value are both empty has no line.
C10_EntriesPaired ==
  (IsMapOp /\ ~panicked) =>
    LET hdr == IF HasHeader THEN 1 ELSE 0
        n == Len(input.entries)
        rows == Rows
    IN /\ n + hdr >= 1 => Len(rows) = n + hdr
       /\ \A i \in 1..n :
            /\ Column(rows[i + hdr], 1) = TrimEmpty(lines(input.entries[i][1]))
            /\ Column(rows[i + hdr], 2) = TrimEmpty(lines(input.entries[i][2]))
            /\ \A j \in DOMAIN rows[i + hdr] : Len(Cells(rows[i + hdr][j])) = 2

C10_Witness ==
  /\ op = "format_hash_map_headers"
  /\ ~panicked
  /\ Len(input.entries) = 2
  /\ input.entries[1][2] # input.entries[2][2]
  /\ TrimEmpty(lines(input.entries[1][2]))
       # TrimEmpty(lines(input.entries[2][2]))
  /\ Len(Rows) = 3

====
